---- MODULE Spec2Model ----
(***************************************************************************)
(* The Fabric GUI front-end (Tauri/React): the three zustand stores        *)
(* (settings, patterns, ai), the App component's loadPatterns and          *)
(* runPattern handlers, the ai-chunk listener and the OutputPanel.         *)
(*                                                                         *)
(* A JavaScript string is a sequence of tokens: a token is one character   *)
(* of user input or one literal fragment of the source.  "" is << >> and   *)
(* + is \o.  Enumerated values (vendor, input mode, pattern and model      *)
(* names) are TLA+ strings.  One action is one run-to-completion segment   *)
(* of a handler: from its call, or from the settling of the promise it     *)
(* awaits, to its next await or its end.                                   *)
(***************************************************************************)
EXTENDS Integers, Sequences, FiniteSets, TLC

VARIABLES
    settingsStore,   \* useSettingsStore
    patternStore,    \* usePatternStore
    aiStore,         \* useAIStore
    loadPatternsPc,  \* loadPatterns: "pending" until list_patterns settles,
                     \* then "done" or "failed"
    runs,            \* the executions of runPattern
    events,          \* ai-chunk events emitted and not yet delivered
    relayed,         \* history: the chunks the listener was handed since the
                     \* buffer was last cleared, in delivery order
    staleEvents      \* history: how many of the undelivered events, counted
                     \* from the head of the queue, were emitted before
                     \* the latest execution of runPattern started

vars ==
    <<settingsStore, patternStore, aiStore, loadPatternsPc, runs, events,
      relayed, staleEvents>>

(***************************************************************************)
(* Bounds of the model.                                                    *)
(***************************************************************************)
\* ai-chunk events one run_pattern command emits at most
MaxChunks == 2
\* ai-chunk events emitted and not yet delivered to the listener
MaxQueue == 1
\* favorites found in localStorage when the pattern store is created
MaxPersisted == 2

\* The executions of runPattern that can be in flight at once: runPattern is
\* an async function and nothing in it keeps a second call from starting
\* while the first awaits.
Runs == {1, 2}

\* what the user types into the input field: empty, blank, a text or URL
Texts == {<< >>, <<" ">>, <<"u">>}
\* what the user types into an API key field
Keys == {<< >>, <<"k">>}
\* the payload of the k-th ai-chunk event of a run_pattern command
Chunk(k) == IF k % 2 = 1 THEN <<"a">> ELSE <<"b">>
\* transcripts and page bodies the collaborators return
Transcripts == {<< >>, <<"t">>}
Bodies == {<< >>, <<"p">>}
VideoIds == {<<"abc">>}
\* error strings of the transcript envelope, and values run_pattern and
\* get_youtube_transcript reject with (a string, or an Error with a message)
EnvelopeErrors == {<<"no captions">>}
Rejections == {[kind |-> "string", text |-> <<"backend failed">>],
               [kind |-> "string", text |-> << >>]}
\* the catalogs list_patterns returns
Catalogs == {<<"summarize", "extract_wisdom">>}
\* the patterns of the list the user clicks, the vendors the user selects
\* and the vendors whose key field the user edits
\* what the user types into the Ollama URL field
OllamaUrls == {<<"http://localhost:11434">>, <<"http://gpu:11434">>}
ClickedPatterns == {"summarize"}
SelectedVendors == {"google", "ollama"}
KeyedVendors == {"google"}

(***************************************************************************)
(* string | null                                                           *)
(***************************************************************************)
Null == [isNull |-> TRUE, str |-> << >>]
Str(s) == [isNull |-> FALSE, str |-> s]
\* JavaScript truthiness of a string | null
Truthy(v) == ~v.isNull /\ v.str # << >>

NoPattern == [isNull |-> TRUE, name |-> ""]
Pattern(n) == [isNull |-> FALSE, name |-> n]

WhiteSpace == {" "}

RECURSIVE TrimStart(_)
TrimStart(s) ==
    IF s # << >> /\ Head(s) \in WhiteSpace THEN TrimStart(Tail(s)) ELSE s

RECURSIVE TrimEnd(_)
TrimEnd(s) ==
    IF s # << >> /\ s[Len(s)] \in WhiteSpace
    THEN TrimEnd(SubSeq(s, 1, Len(s) - 1)) ELSE s

\* String.prototype.trim
Trim(s) == TrimEnd(TrimStart(s))

\* err.message || String(err)
ErrMessage(err) ==
    IF err.kind = "Error"
    THEN (IF err.text # << >> THEN err.text ELSE <<"Error">>)
    ELSE err.text

Error(msg) == [kind |-> "Error", text |-> msg]

(***************************************************************************)
(* stores/settings.ts                                                      *)
(***************************************************************************)
Vendors == {"google", "openai", "anthropic", "ollama"}

SettingsDefaults ==
    [googleApiKey |-> << >>, openaiApiKey |-> << >>, anthropicApiKey |-> << >>,
     ollamaUrl |-> <<"http://localhost:11434">>,
     vendor |-> "google", model |-> "gemini-2.0-flash",
     temperature |-> "0.7", topP |-> "0.9", strategy |-> "none",
     thinkingLevel |-> 0, theme |-> "dark"]

setApiKey(s, v, key) ==
    CASE v = "google" -> [s EXCEPT !.googleApiKey = key]
      [] v = "openai" -> [s EXCEPT !.openaiApiKey = key]
      [] v = "anthropic" -> [s EXCEPT !.anthropicApiKey = key]
      [] OTHER -> s

setVendor(s, v) == [s EXCEPT !.vendor = v]
setModel(s, m) == [s EXCEPT !.model = m]

\* a lookup that takes the server URL for Ollama's credential
getApiKeyOllamaUrl(s, v) ==
    CASE v = "google" -> s.googleApiKey
      [] v = "openai" -> s.openaiApiKey
      [] v = "anthropic" -> s.anthropicApiKey
      [] OTHER -> s.ollamaUrl

\* a lookup that falls back to the Google key
getApiKeyFallback(s, v) ==
    CASE v = "openai" -> s.openaiApiKey
      [] v = "anthropic" -> s.anthropicApiKey
      [] OTHER -> s.googleApiKey

getApiKey(s, v) ==
    CASE v = "google" -> s.googleApiKey
      [] v = "openai" -> s.openaiApiKey
      [] v = "anthropic" -> s.anthropicApiKey
      [] OTHER -> << >>

(***************************************************************************)
(* components/ModelSelector.tsx                                            *)
(***************************************************************************)
MODELS ==
    [google |-> <<"gemini-3-pro-preview", "gemini-3-flash-preview",
                  "gemini-2.0-flash-thinking-exp", "gemini-2.0-flash",
                  "gemini-1.5-pro", "gemini-2.0-pro-exp-02-05">>,
     openai |-> <<"gpt-4o", "gpt-4o-mini", "o1-preview", "o1-mini">>,
     anthropic |-> <<"claude-3-5-sonnet-latest", "claude-3-5-haiku-latest",
                     "claude-3-opus-latest">>,
     ollama |-> <<"llama3", "mistral", "phi3", "custom">>]

\* an onChange that leaves the model of the vendor before
vendorOnChangeKeepsModel(s, newVendor) == setVendor(s, newVendor)

\* the vendor <select>'s onChange
vendorOnChange(s, newVendor) == setModel(setVendor(s, newVendor), MODELS[newVendor][1])

(***************************************************************************)
(* stores/patterns.ts                                                      *)
(***************************************************************************)
PatternDefaults ==
    [patterns |-> << >>, favorites |-> << >>, selectedPattern |-> NoPattern]

\* a setPatterns that starts the favorites over with the new catalog
setPatternsDropsFavorites(s, patterns) ==
    [s EXCEPT !.patterns = patterns, !.favorites = << >>]
setPatterns(s, patterns) == [s EXCEPT !.patterns = patterns]
setSelectedPattern(s, p) == [s EXCEPT !.selectedPattern = p]

Includes(seq, x) == \E i \in 1..Len(seq) : seq[i] = x

\* a toggle that only ever adds
toggleFavoriteAdd(s, name) == [s EXCEPT !.favorites = Append(@, name)]

\* a toggle whose removal empties the list
toggleFavoriteClears(s, name) ==
    IF Includes(s.favorites, name)
    THEN [s EXCEPT !.favorites = << >>]
    ELSE [s EXCEPT !.favorites = Append(@, name)]

toggleFavorite(s, name) ==
    IF Includes(s.favorites, name)
    THEN [s EXCEPT !.favorites = SelectSeq(@, LAMBDA f : f # name)]
    ELSE [s EXCEPT !.favorites = Append(@, name)]

isFavorite(s, name) == Includes(s.favorites, name)

(***************************************************************************)
(* stores/ai.ts                                                            *)
(***************************************************************************)
AIDefaults ==
    [inputMode |-> "text", inputText |-> << >>, includeTimestamps |-> FALSE,
     output |-> << >>, isStreaming |-> FALSE, error |-> Null]

setInputMode(s, mode) == [s EXCEPT !.inputMode = mode]
setInputText(s, text) == [s EXCEPT !.inputText = text]
setIncludeTimestamps(s, b) == [s EXCEPT !.includeTimestamps = b]
\* a store that puts the chunk in front of the buffer
prependOutput(s, chunk) == [s EXCEPT !.output = chunk \o s.output]
appendOutput(s, chunk) == [s EXCEPT !.output = s.output \o chunk]
\* a clearOutput that also switches the streaming flag off
clearOutputStops(s) ==
    [s EXCEPT !.output = << >>, !.error = Null, !.isStreaming = FALSE]
\* a clearOutput that empties the input field as well
clearOutputAndInput(s) ==
    [s EXCEPT !.output = << >>, !.error = Null, !.inputText = << >>]
clearOutput(s) == [s EXCEPT !.output = << >>, !.error = Null]
setStreaming(s, b) == [s EXCEPT !.isStreaming = b]
\* a store whose setError empties the buffer
setErrorAndClear(s, e) ==
    [s EXCEPT !.error = e, !.isStreaming = FALSE, !.output = << >>]
\* a store whose setError leaves the streaming flag alone
setErrorOnly(s, e) == [s EXCEPT !.error = e]
setError(s, e) == [s EXCEPT !.error = e, !.isStreaming = FALSE]

(***************************************************************************)
(* components/OutputPanel.tsx: what the content area shows                 *)
(***************************************************************************)
\* error ? <error box> : output ? <article> : <placeholder>
OutputPanel(s) ==
    [errorBox |-> IF Truthy(s.error) THEN s.error.str ELSE << >>,
     article |-> IF ~Truthy(s.error) THEN s.output ELSE << >>,
     placeholder |-> ~Truthy(s.error) /\ s.output = << >>]

(***************************************************************************)
(* App.tsx: literals                                                       *)
(***************************************************************************)
MsgLoadFailed ==
    <<"Failed to load patterns from local storage. Please check your Fabric installation.">>
DemoPatterns ==
    <<"summarize", "extract_wisdom", "improve_writing", "analyze_paper", "create_summary">>
MsgValidation == <<"Please select a pattern and provide input.">>
MsgNoKey(v) == <<"API key for ", v, " not found. Please check Settings.">>
\* an emoji is written as its code point
MsgFetchingTranscript == <<"> ", "U+1F3AC", " Fetching YouTube transcript...\n\n">>
MsgVideo(id) == <<"> ", "U+1F4DD", " Video: ">> \o id \o <<"\n\n">>
MsgScraping == <<"> ", "U+1F310", " Scraping URL content...\n\n">>
MsgContent(text) == <<"> ", "U+1F4C4", " Content from ">> \o text \o <<"\n\n">>
MsgScrapeFailed == <<"Failed to scrape URL">>
\* the TypeError fetch() throws when the request itself fails
MsgFetchThrew == <<"Failed to fetch">>
\* the TypeError response.text() rejects with when the body cannot be read
MsgBodyFailed == <<"Failed to read the response body">>


(***************************************************************************)
(* App.tsx: one runPattern execution.  The closure fields are the values   *)
(* the handler captured from the render it was called in.  calls (the      *)
(* commands the execution has issued) and settled (how the promise it      *)
(* awaited last was settled) are history; they stay once the execution     *)
(* has ended, until the next one starts.  payload is the transcript or     *)
(* the page body the execution was handed, kept while it is in flight.     *)
(***************************************************************************)
NoRequest ==
    [vendor |-> "", model |-> "", api_key |-> << >>, system_prompt |-> "",
     user_input |-> << >>, temperature |-> "", top_p |-> "", thinking_level |-> 0]

\* the arguments of the command or request an execution awaits: the url, and
\* for get_youtube_transcript the includeTimestamps flag
NoArgs == [url |-> << >>, includeTimestamps |-> FALSE]

\* `https://r.jina.ai/${inputText}`
JinaUrl(text) == <<"https://r.jina.ai/">> \o text

IdleRun ==
    [pc |-> "idle", selectedPattern |-> "", inputText |-> << >>, inputMode |-> "",
     includeTimestamps |-> FALSE, vendor |-> "", model |-> "",
     temperature |-> "", topP |-> "", thinkingLevel |-> 0, apiKey |-> << >>,
     request |-> NoRequest, emitted |-> 0, calls |-> {}, settled |-> "",
     args |-> NoArgs, payload |-> << >>]

Finished(run) == [IdleRun EXCEPT !.pc = "done", !.calls = run.calls]

InFlight(r) ==
    runs[r].pc \in {"get_youtube_transcript", "fetch", "response.text", "run_pattern"}

\* a validation that looks at the input only
validationFailsInput(sel, text, mode) == text = << >> /\ mode # "text"

\* if (!selectedPattern || (!inputText && inputMode !== "text"))
validationFails(sel, text, mode) ==
    \/ sel.isNull
    \/ sel.name = ""
    \/ (text = << >> /\ mode # "text")

\* a catch block that swallows the error
catchSwallow(s, err) == setStreaming(s, FALSE)

\* catch (err) { setError(err.message || String(err)) } finally { setStreaming(false) }
catchFinally(s, err) == setStreaming(setError(s, Str(ErrMessage(err))), FALSE)

\* a finally block that leaves the streaming flag alone
finallyNothing(s) == s

\* finally { setStreaming(false) } after the try block completed
finallyOnly(s) == setStreaming(s, FALSE)

\* const request = {...}
buildRequest(run, finalInput) ==
    [vendor |-> run.vendor, model |-> run.model, api_key |-> run.apiKey,
     system_prompt |-> run.selectedPattern, user_input |-> finalInput,
     temperature |-> run.temperature, top_p |-> run.topP,
     thinking_level |-> run.thinkingLevel]

\* await invoke("run_pattern", { request })
invokeRunPattern(run, finalInput) ==
    [run EXCEPT !.pc = "run_pattern", !.request = buildRequest(run, finalInput),
                !.calls = run.calls \cup {"run_pattern"}]

\* a start that keeps the buffer and the error of the run before
runStartKeep(s) == setStreaming(s, TRUE)

\* clearOutput(); setStreaming(true);
runStart(s) == setStreaming(clearOutput(s), TRUE)

\* runPattern from clearOutput() to its first await, or to its end when the
\* API key is missing: the ai store and the execution it leaves
runPatternBody(s, run) ==
    LET started == runStart(s)
    IN  IF run.apiKey = << >>
        THEN [aiStore |-> catchFinally(started, Error(MsgNoKey(run.vendor))),
              run |-> Finished(run)]
        ELSE IF run.inputMode = "youtube"
        THEN [aiStore |-> appendOutput(started, MsgFetchingTranscript),
              run |-> [run EXCEPT !.pc = "get_youtube_transcript",
                                  !.calls = {"get_youtube_transcript"},
                                  !.args = [url |-> run.inputText,
                                            includeTimestamps |-> run.includeTimestamps]]]
        ELSE IF run.inputMode = "url"
        THEN [aiStore |-> appendOutput(started, MsgScraping),
              run |-> [run EXCEPT !.pc = "fetch", !.calls = {"fetch"},
                                  !.args = [url |-> JinaUrl(run.inputText),
                                            includeTimestamps |-> FALSE]]]
        ELSE [aiStore |-> started, run |-> invokeRunPattern(run, run.inputText)]

\* the parsed transcript envelopes: {error} or {transcript, video_id}
Envelopes ==
    {[error |-> Str(e), transcript |-> << >>, video_id |-> << >>] : e \in EnvelopeErrors}
    \cup {[error |-> Null, transcript |-> t, video_id |-> id] :
              t \in Transcripts, id \in VideoIds}

\* runPattern after await invoke("get_youtube_transcript", ...) resolved
afterTranscript(s, run, data) ==
    IF Truthy(data.error)
    THEN [aiStore |-> catchFinally(s, Error(data.error.str)), run |-> Finished(run)]
    ELSE [aiStore |-> appendOutput(clearOutput(s), MsgVideo(data.video_id)),
          run |-> invokeRunPattern(run, data.transcript)]

Responses == {[ok |-> ok] : ok \in BOOLEAN}

\* a continuation that does not look at response.ok
afterFetchAnyStatus(s, run, response) ==
    [aiStore |-> s, run |-> [run EXCEPT !.pc = "response.text"]]

\* runPattern after await fetch(jinaUrl) resolved
afterFetch(s, run, response) ==
    IF ~response.ok
    THEN [aiStore |-> catchFinally(s, Error(MsgScrapeFailed)), run |-> Finished(run)]
    ELSE [aiStore |-> s, run |-> [run EXCEPT !.pc = "response.text"]]

\* a continuation that sends the entered URL instead of the page it fetched
afterTextSendsUrl(s, run, body) ==
    [aiStore |-> appendOutput(clearOutput(s), MsgContent(run.inputText)),
     run |-> invokeRunPattern(run, run.inputText)]

\* runPattern after await response.text() resolved
afterText(s, run, body) ==
    [aiStore |-> appendOutput(clearOutput(s), MsgContent(run.inputText)),
     run |-> invokeRunPattern(run, body)]

\* a listener that drops the chunks arriving while nothing is streaming
listenerWhileStreaming(s, event) ==
    IF s.isStreaming THEN appendOutput(s, event.payload.chunk) ELSE s

\* listen("ai-chunk", (event) => { appendOutput(event.payload.chunk) })
listener(s, event) == appendOutput(s, event.payload.chunk)

\* a button that stays enabled while a run is streaming
runButtonDisabledIdle(sel, text, streaming) ==
    \/ sel.isNull
    \/ sel.name = ""
    \/ Trim(text) = << >>

\* <button disabled={!selectedPattern || !inputText.trim() || isStreaming}>
runButtonDisabled(sel, text, streaming) ==
    \/ sel.isNull
    \/ sel.name = ""
    \/ Trim(text) = << >>
    \/ streaming

(***************************************************************************)
(* The state after the App has mounted: the stores hold their defaults,    *)
(* the ai-chunk listener is registered and list_patterns is pending.       *)
(***************************************************************************)
Init ==
    /\ settingsStore = SettingsDefaults
    /\ patternStore = PatternDefaults
    /\ aiStore = AIDefaults
    /\ loadPatternsPc = "pending"
    /\ runs = [r \in Runs |-> IdleRun]
    /\ events = << >>
    /\ relayed = << >>
    /\ staleEvents = 0

(***************************************************************************)
(* The user                                                                *)
(***************************************************************************)
\* InputPanel: a mode tab
ClickInputMode ==
    \E mode \in {"text", "url", "youtube"} :
        /\ aiStore' = setInputMode(aiStore, mode)
        /\ UNCHANGED <<settingsStore, patternStore, loadPatternsPc, runs, events, relayed, staleEvents>>

\* InputPanel: the textarea or the URL field
TypeInputText ==
    \E text \in Texts :
        /\ aiStore' = setInputText(aiStore, text)
        /\ UNCHANGED <<settingsStore, patternStore, loadPatternsPc, runs, events, relayed, staleEvents>>

\* InputPanel: the timestamps checkbox, rendered in youtube mode only
ClickIncludeTimestamps ==
    /\ aiStore.inputMode = "youtube"
    /\ aiStore' = setIncludeTimestamps(aiStore, ~aiStore.includeTimestamps)
    /\ UNCHANGED <<settingsStore, patternStore, loadPatternsPc, runs, events, relayed, staleEvents>>

\* PatternBrowser: a pattern of the list
ClickPattern ==
    \E i \in 1..Len(patternStore.patterns) :
        /\ patternStore.patterns[i] \in ClickedPatterns
        /\ patternStore' = setSelectedPattern(patternStore, Pattern(patternStore.patterns[i]))
        /\ UNCHANGED <<settingsStore, aiStore, loadPatternsPc, runs, events, relayed, staleEvents>>

\* PatternBrowser: the star of a pattern of the list
ClickFavorite ==
    \E i \in 1..Len(patternStore.patterns) :
        /\ patternStore' = toggleFavorite(patternStore, patternStore.patterns[i])
        /\ UNCHANGED <<settingsStore, aiStore, loadPatternsPc, runs, events, relayed,
                       staleEvents>>

\* ModelSelector: the vendor <select>
SelectVendor ==
    \E v \in SelectedVendors :
        /\ settingsStore' = vendorOnChange(settingsStore, v)
        /\ UNCHANGED <<patternStore, aiStore, loadPatternsPc, runs, events, relayed, staleEvents>>

\* SettingsDialog: an API key field
TypeApiKey ==
    \E v \in KeyedVendors, key \in Keys :
        /\ settingsStore' = setApiKey(settingsStore, v, key)
        /\ UNCHANGED <<patternStore, aiStore, loadPatternsPc, runs, events, relayed, staleEvents>>

\* App: the Clear button
ClickClear ==
    /\ aiStore' = clearOutput(aiStore)
    /\ relayed' = << >>
    /\ UNCHANGED <<settingsStore, patternStore, loadPatternsPc, runs, events, staleEvents>>

(***************************************************************************)
(* App.tsx: loadPatterns                                                   *)
(***************************************************************************)
LoadPatternsResolves ==
    /\ loadPatternsPc = "pending"
    /\ \E catalog \in Catalogs : patternStore' = setPatterns(patternStore, catalog)
    /\ loadPatternsPc' = "done"
    /\ UNCHANGED <<settingsStore, aiStore, runs, events, relayed, staleEvents>>

\* a catch block that falls back to the demo patterns without a message
LoadPatternsRejectsSilently ==
    /\ loadPatternsPc = "pending"
    /\ patternStore' = setPatterns(patternStore, DemoPatterns)
    /\ loadPatternsPc' = "failed"
    /\ UNCHANGED <<settingsStore, aiStore, runs, events, relayed, staleEvents>>

LoadPatternsRejects ==
    /\ loadPatternsPc = "pending"
    /\ aiStore' = setError(aiStore, Str(MsgLoadFailed))
    /\ patternStore' = setPatterns(patternStore, DemoPatterns)
    /\ loadPatternsPc' = "failed"
    /\ UNCHANGED <<settingsStore, runs, events, relayed, staleEvents>>

(***************************************************************************)
(* App.tsx: runPattern                                                     *)
(***************************************************************************)
\* the closure of a call made in the current state
Capture ==
    [IdleRun EXCEPT !.selectedPattern = patternStore.selectedPattern.name,
                    !.inputText = aiStore.inputText,
                    !.inputMode = aiStore.inputMode,
                    !.includeTimestamps = aiStore.includeTimestamps,
                    !.vendor = settingsStore.vendor,
                    !.model = settingsStore.model,
                    !.temperature = settingsStore.temperature,
                    !.topP = settingsStore.topP,
                    !.thinkingLevel = settingsStore.thinkingLevel,
                    !.apiKey = getApiKey(settingsStore, settingsStore.vendor)]

\* a call of runPattern, up to its first await
RunPattern ==
    IF validationFails(patternStore.selectedPattern, aiStore.inputText, aiStore.inputMode)
    THEN /\ aiStore' = setError(aiStore, Str(MsgValidation))
         /\ UNCHANGED <<settingsStore, patternStore, loadPatternsPc, runs, events, relayed, staleEvents>>
    ELSE \E r \in Runs :
        /\ ~InFlight(r)
        /\ \A q \in Runs : q < r => InFlight(q)
        /\ LET k == runPatternBody(aiStore, Capture)
           IN  /\ aiStore' = k.aiStore
               /\ runs' = [runs EXCEPT ![r] = k.run]
        /\ relayed' = << >>
        /\ staleEvents' = Len(events)
        /\ UNCHANGED <<settingsStore, patternStore, loadPatternsPc, events>>

\* a call of runPattern made while no execution of it is in flight, or one
\* that its validation turns away
SequentialRunPattern ==
    /\ \/ \A r \in Runs : ~InFlight(r)
       \/ validationFails(patternStore.selectedPattern, aiStore.inputText,
                          aiStore.inputMode)
    /\ RunPattern

\* the Run Pattern button's onClick
ClickRunPattern ==
    /\ ~runButtonDisabled(patternStore.selectedPattern, aiStore.inputText,
                          aiStore.isStreaming)
    /\ RunPattern

\* await invoke("get_youtube_transcript", ...) resolves
TranscriptResolves(r) ==
    /\ runs[r].pc = "get_youtube_transcript"
    /\ \E data \in Envelopes :
        LET k == afterTranscript(aiStore, runs[r], data)
            how == IF Truthy(data.error) THEN "transcript:error" ELSE "transcript:ok"
        IN  /\ aiStore' = k.aiStore
            /\ runs' = [runs EXCEPT ![r] = [k.run EXCEPT !.settled = how,
                                                        !.payload = data.transcript]]
            /\ relayed' = IF Truthy(data.error) THEN relayed ELSE << >>
    /\ UNCHANGED <<settingsStore, patternStore, loadPatternsPc, events, staleEvents>>

\* await invoke("get_youtube_transcript", ...) rejects
TranscriptRejects(r) ==
    /\ runs[r].pc = "get_youtube_transcript"
    /\ \E err \in Rejections : aiStore' = catchFinally(aiStore, err)
    /\ runs' = [runs EXCEPT ![r] = [Finished(runs[r]) EXCEPT !.settled = "transcript:rejected"]]
    /\ UNCHANGED <<settingsStore, patternStore, loadPatternsPc, events, relayed, staleEvents>>

\* await fetch(jinaUrl) resolves
FetchResolves(r) ==
    /\ runs[r].pc = "fetch"
    /\ \E response \in Responses :
        LET k == afterFetch(aiStore, runs[r], response)
            how == IF response.ok THEN "fetch:ok" ELSE "fetch:not_ok"
        IN  /\ aiStore' = k.aiStore
            /\ runs' = [runs EXCEPT ![r] = [k.run EXCEPT !.settled = how]]
    /\ UNCHANGED <<settingsStore, patternStore, loadPatternsPc, events, relayed, staleEvents>>

\* await fetch(jinaUrl) throws
FetchThrows(r) ==
    /\ runs[r].pc = "fetch"
    /\ aiStore' = catchFinally(aiStore, Error(MsgFetchThrew))
    /\ runs' = [runs EXCEPT ![r] = [Finished(runs[r]) EXCEPT !.settled = "fetch:threw"]]
    /\ UNCHANGED <<settingsStore, patternStore, loadPatternsPc, events, relayed, staleEvents>>

\* await response.text() resolves
TextResolves(r) ==
    /\ runs[r].pc = "response.text"
    /\ \E body \in Bodies :
        LET k == afterText(aiStore, runs[r], body)
        IN  /\ aiStore' = k.aiStore
            /\ runs' = [runs EXCEPT ![r] = [k.run EXCEPT !.settled = "text:ok",
                                                        !.payload = body]]
    /\ relayed' = << >>
    /\ UNCHANGED <<settingsStore, patternStore, loadPatternsPc, events, staleEvents>>

\* await response.text() rejects
TextRejects(r) ==
    /\ runs[r].pc = "response.text"
    /\ aiStore' = catchFinally(aiStore, Error(MsgBodyFailed))
    /\ runs' = [runs EXCEPT ![r] = [Finished(runs[r]) EXCEPT !.settled = "text:rejected"]]
    /\ UNCHANGED <<settingsStore, patternStore, loadPatternsPc, events, relayed, staleEvents>>

\* await invoke("run_pattern", { request }) resolves
RunPatternResolves(r) ==
    /\ runs[r].pc = "run_pattern"
    /\ aiStore' = finallyOnly(aiStore)
    /\ runs' = [runs EXCEPT ![r] = [Finished(runs[r]) EXCEPT !.settled = "run_pattern:resolved"]]
    /\ UNCHANGED <<settingsStore, patternStore, loadPatternsPc, events, relayed, staleEvents>>

\* await invoke("run_pattern", { request }) rejects
RunPatternRejects(r) ==
    /\ runs[r].pc = "run_pattern"
    /\ \E err \in Rejections : aiStore' = catchFinally(aiStore, err)
    /\ runs' = [runs EXCEPT ![r] = [Finished(runs[r]) EXCEPT !.settled = "run_pattern:rejected"]]
    /\ UNCHANGED <<settingsStore, patternStore, loadPatternsPc, events, relayed, staleEvents>>

(***************************************************************************)
(* The backend's run_pattern command emits ai-chunk events while it        *)
(* executes; the webview delivers them to the listener in emission order.  *)
(***************************************************************************)
EmitChunk(r) ==
    /\ runs[r].pc = "run_pattern"
    /\ runs[r].emitted < MaxChunks
    /\ Len(events) < MaxQueue
    /\ events' = Append(events, [payload |-> [chunk |-> Chunk(runs[r].emitted + 1)]])
    /\ runs' = [runs EXCEPT ![r].emitted = @ + 1]
    /\ UNCHANGED <<settingsStore, patternStore, aiStore, loadPatternsPc, relayed, staleEvents>>

DeliverChunk ==
    /\ events # << >>
    /\ aiStore' = listener(aiStore, Head(events))
    /\ relayed' = Append(relayed, Head(events).payload.chunk)
    /\ events' = Tail(events)
    /\ staleEvents' = IF staleEvents > 0 THEN staleEvents - 1 ELSE 0
    /\ UNCHANGED <<settingsStore, patternStore, loadPatternsPc, runs>>

\* what happens apart from a call of runPattern
Others ==
    \/ ClickInputMode
    \/ TypeInputText
    \/ ClickPattern
    \/ SelectVendor
    \/ TypeApiKey
    \/ ClickClear
    \/ LoadPatternsResolves
    \/ LoadPatternsRejects
    \/ \E r \in Runs : TranscriptResolves(r)
    \/ \E r \in Runs : TranscriptRejects(r)
    \/ \E r \in Runs : FetchResolves(r)
    \/ \E r \in Runs : FetchThrows(r)
    \/ \E r \in Runs : TextResolves(r)
    \/ \E r \in Runs : TextRejects(r)
    \/ \E r \in Runs : RunPatternResolves(r)
    \/ \E r \in Runs : RunPatternRejects(r)
    \/ \E r \in Runs : EmitChunk(r)
    \/ DeliverChunk

(***************************************************************************)
(* Spec: runPattern is called in any state, whether or not the Run button  *)
(* is enabled, but a call that passes validation only while no execution   *)
(* is in flight; includeTimestamps, which only travels to                  *)
(* get_youtube_transcript, stays at its default.                           *)
(* SpecUI: the App as the user drives it: runPattern is called by a click  *)
(* on the enabled Run button, and the timestamps checkbox is in use.       *)
(***************************************************************************)
Next == SequentialRunPattern \/ Others

Spec == Init /\ [][Next]_vars

NextUI == ClickRunPattern \/ ClickIncludeTimestamps \/ Others

SpecUI == Init /\ [][NextUI]_vars

(***************************************************************************)
(* SpecLive: Spec, with every call runPattern awaits settling eventually   *)
(* (the transcript command, the fetch, the reading of the body and         *)
(* run_pattern each resolve or reject).                                    *)
(***************************************************************************)
Settle ==
    \E r \in Runs :
        \/ TranscriptResolves(r) \/ TranscriptRejects(r)
        \/ FetchResolves(r) \/ FetchThrows(r)
        \/ TextResolves(r) \/ TextRejects(r)
        \/ RunPatternResolves(r) \/ RunPatternRejects(r)

SpecLive == Spec /\ WF_vars(Settle)

(***************************************************************************)
(* SpecSettings: the settings store on its own, driven through the         *)
(* ModelSelector and the SettingsDialog: every vendor and every model of   *)
(* its list can be selected, every key field and the Ollama URL edited.    *)
(***************************************************************************)
\* the vendors the SettingsDialog has a key field for
DialogVendors == {"google", "openai", "anthropic"}

\* ModelSelector: the vendor <select>, any of its options
SelectAnyVendor ==
    \E v \in Vendors :
        /\ settingsStore' = vendorOnChange(settingsStore, v)
        /\ UNCHANGED <<patternStore, aiStore, loadPatternsPc, runs, events, relayed, staleEvents>>

\* ModelSelector: the model <select>, whose options are MODELS[vendor]
SelectModel ==
    \E i \in 1..Len(MODELS[settingsStore.vendor]) :
        /\ settingsStore' = setModel(settingsStore, MODELS[settingsStore.vendor][i])
        /\ UNCHANGED <<patternStore, aiStore, loadPatternsPc, runs, events, relayed, staleEvents>>

\* SettingsDialog: any of the three API key fields
TypeAnyApiKey ==
    \E v \in DialogVendors, key \in Keys :
        /\ settingsStore' = setApiKey(settingsStore, v, key)
        /\ UNCHANGED <<patternStore, aiStore, loadPatternsPc, runs, events, relayed, staleEvents>>

\* SettingsDialog: the Ollama URL field
TypeOllamaUrl ==
    \E url \in OllamaUrls :
        /\ settingsStore' = [settingsStore EXCEPT !.ollamaUrl = url]
        /\ UNCHANGED <<patternStore, aiStore, loadPatternsPc, runs, events, relayed, staleEvents>>

NextSettings ==
    \/ SelectAnyVendor
    \/ SelectModel
    \/ TypeAnyApiKey
    \/ TypeOllamaUrl

SpecSettings == Init /\ [][NextSettings]_vars

(***************************************************************************)
(* SpecOllama: the App in a session with Ollama as the vendor, which the   *)
(* persisted settings store restores.  The user edits every credential     *)
(* and the Ollama URL, picks among Ollama's models, prepares any input and *)
(* clicks Run Pattern.                                                     *)
(***************************************************************************)
InitOllama ==
    /\ settingsStore = vendorOnChange(SettingsDefaults, "ollama")
    /\ patternStore = PatternDefaults
    /\ aiStore = AIDefaults
    /\ loadPatternsPc = "pending"
    /\ runs = [r \in Runs |-> IdleRun]
    /\ events = << >>
    /\ relayed = << >>
    /\ staleEvents = 0

NextOllama ==
    \/ ClickInputMode
    \/ TypeInputText
    \/ ClickIncludeTimestamps
    \/ ClickPattern
    \/ SelectModel
    \/ TypeAnyApiKey
    \/ TypeOllamaUrl
    \/ ClickClear
    \/ LoadPatternsResolves
    \/ LoadPatternsRejects
    \/ ClickRunPattern

SpecOllama == InitOllama /\ [][NextOllama]_vars

(***************************************************************************)
(* SpecPatterns: the pattern store on its own.  persist() restores the     *)
(* favorites an earlier session wrote, a list without repetitions; the     *)
(* user then selects patterns and toggles stars.                           *)
(***************************************************************************)
PatternNames == {DemoPatterns[i] : i \in 1..Len(DemoPatterns)}

PersistedFavorites ==
    {f \in UNION {[1..n -> PatternNames] : n \in 0..MaxPersisted} :
        \A i, j \in 1..Len(f) : i # j => f[i] # f[j]}

InitPatterns ==
    /\ settingsStore = SettingsDefaults
    /\ \E f \in PersistedFavorites :
           patternStore = [PatternDefaults EXCEPT !.favorites = f]
    /\ aiStore = AIDefaults
    /\ loadPatternsPc = "pending"
    /\ runs = [r \in Runs |-> IdleRun]
    /\ events = << >>
    /\ relayed = << >>
    /\ staleEvents = 0

NextPatterns ==
    \/ LoadPatternsResolves
    \/ LoadPatternsRejects
    \/ ClickPattern
    \/ ClickFavorite

SpecPatterns == InitPatterns /\ [][NextPatterns]_vars

(***************************************************************************)
(* Properties                                                              *)
(***************************************************************************)
RECURSIVE Flatten(_)
Flatten(chunks) ==
    IF chunks = << >> THEN << >> ELSE Head(chunks) \o Flatten(Tail(chunks))

\* what runPattern itself writes into the buffer
ProgressLines == {MsgFetchingTranscript, MsgScraping}
HeaderLines ==
    {MsgVideo(id) : id \in VideoIds} \cup {MsgContent(t) : t \in Texts}

\* C1: the output buffer is what runPattern wrote into it since it was last
\* cleared, followed by the chunks the listener was handed since then, each
\* once and in the order of delivery.
C1_BufferIsConcatenation ==
    \E own \in {<< >>} \cup ProgressLines \cup HeaderLines :
        aiStore.output = own \o Flatten(relayed)

\* two different chunks have been relayed into the buffer of one run
C1_Witness ==
    /\ Len(relayed) = 2
    /\ relayed[1] # relayed[2]
    /\ aiStore.output = relayed[1] \o relayed[2]

\* C2: whenever the store holds an error, isStreaming is false.
C2_ErrorImpliesNotStreaming == ~aiStore.error.isNull => ~aiStore.isStreaming

\* an error was set while a run was in flight and chunks had been relayed
C2_Witness ==
    /\ ~aiStore.error.isNull
    /\ \E r \in Runs : InFlight(r)
    /\ relayed # << >>

\* C3: a call of runPattern that passes validation leaves nothing of an
\* earlier run behind: the buffer holds at most the call's own progress line
\* and the error at most the call's own missing-key error; when the call goes
\* on to invoke run_pattern, both are empty, so the run's first chunk is
\* appended to an empty buffer.
C3_StartResets ==
    [][(/\ RunPattern
        /\ ~validationFails(patternStore.selectedPattern, aiStore.inputText,
                            aiStore.inputMode))
       => /\ aiStore'.output \in {<< >>} \cup ProgressLines
          /\ aiStore'.error \in {Null, Str(MsgNoKey(settingsStore.vendor))}
          /\ relayed' = << >>
          /\ \A r \in Runs : runs'[r].pc = "run_pattern" =>
                /\ aiStore'.output = << >>
                /\ aiStore'.error = Null]_vars

\* the first chunk of a run is about to be appended to the reset buffer
C3_Witness ==
    /\ runs[1].pc = "run_pattern"
    /\ runs[1].inputMode = "text"
    /\ runs[1].emitted = 1
    /\ Len(events) = 1
    /\ relayed = << >>
    /\ aiStore.output = << >>
    /\ aiStore.error = Null
    /\ aiStore.isStreaming

\* C4: a call of runPattern with no pattern selected issues no command and
\* no fetch, emits nothing and sets the validation error, whatever the input
\* mode and the input text are.
C4_NoPatternNoNetwork ==
    [][(patternStore.selectedPattern.isNull /\ RunPattern)
       => /\ UNCHANGED <<runs, events>>
          /\ aiStore'.error = Str(MsgValidation)
          /\ ~aiStore'.isStreaming]_vars

\* a run in url mode with a URL typed in was rejected for want of a pattern
C4_Witness ==
    /\ patternStore.selectedPattern.isNull
    /\ aiStore.error = Str(MsgValidation)
    /\ aiStore.inputMode = "url"
    /\ aiStore.inputText = <<"u">>
    /\ \A r \in Runs : runs[r] = IdleRun

\* C5: run_pattern is never invoked with an empty user_input, in any input
\* mode.
C5_EmptyPayloadNeverSent ==
    \A r \in Runs : runs[r].pc = "run_pattern" => runs[r].request.user_input # << >>

\* the selected vendor has no API key in the settings store
NoCredential ==
    \/ settingsStore.vendor = "google" /\ settingsStore.googleApiKey = << >>
    \/ settingsStore.vendor = "openai" /\ settingsStore.openaiApiKey = << >>
    \/ settingsStore.vendor = "anthropic" /\ settingsStore.anthropicApiKey = << >>
    \/ settingsStore.vendor = "ollama"

\* C6: a call of runPattern that passes validation while the selected vendor
\* has no API key ends in the same step, having issued no command and no
\* fetch, with the missing-key error set and isStreaming false.
C6_NoCredentialNoNetwork ==
    [][(/\ RunPattern
        /\ ~validationFails(patternStore.selectedPattern, aiStore.inputText,
                            aiStore.inputMode)
        /\ NoCredential)
       => /\ \A r \in Runs : ~InFlight(r)' /\ runs'[r].calls = {}
          /\ UNCHANGED events
          /\ aiStore'.error = Str(MsgNoKey(settingsStore.vendor))
          /\ ~aiStore'.isStreaming]_vars

\* a url run for google, with a pattern and a URL but no key, has just ended
C6_Witness ==
    /\ runs[1].pc = "done"
    /\ runs[1].calls = {}
    /\ settingsStore.vendor = "google"
    /\ settingsStore.googleApiKey = << >>
    /\ aiStore.inputMode = "url"
    /\ aiStore.inputText = <<"u">>
    /\ aiStore.error = Str(MsgNoKey("google"))
    /\ ~aiStore.isStreaming

\* C7: an execution whose fetch resolved with response.ok false has ended
\* without invoking run_pattern.
C7_NotOkNeverRuns ==
    \A r \in Runs : runs[r].settled = "fetch:not_ok" =>
        /\ runs[r].pc = "done"
        /\ "run_pattern" \notin runs[r].calls

\* a url run has ended on a response that was not ok
C7_Witness ==
    /\ runs[1].settled = "fetch:not_ok"
    /\ runs[1].calls = {"fetch"}
    /\ aiStore.error = Str(MsgScrapeFailed)

\* C8: the step in which a url run's scrape fails (fetch throws, the
\* response is not ok, or its body cannot be read) ends the run with an
\* empty buffer and an error set.
C8_FetchErrorBufferEmpty ==
    [][\A r \in Runs :
          (/\ runs[r].pc \in {"fetch", "response.text"}
           /\ runs'[r].settled \in {"fetch:not_ok", "fetch:threw", "text:rejected"})
          => /\ runs'[r].pc = "done"
             /\ ~aiStore'.error.isNull
             /\ aiStore'.output = << >>]_vars

\* C9: the step in which a youtube run receives an envelope with an error
\* field ends the run without run_pattern, with the error set to the
\* envelope's error string, an empty buffer and isStreaming false.
C9_TranscriptErrorBufferEmpty ==
    [][\A r \in Runs :
          (runs[r].pc = "get_youtube_transcript" /\ runs'[r].settled = "transcript:error")
          => /\ runs'[r].pc = "done"
             /\ "run_pattern" \notin runs'[r].calls
             /\ ~aiStore'.error.isNull
             /\ aiStore'.error.str \in EnvelopeErrors
             /\ ~aiStore'.isStreaming
             /\ aiStore'.output = << >>]_vars

\* C10: the step in which run_pattern is rejected with a message, after
\* chunks were relayed, clears isStreaming and leaves the buffer as it was,
\* and the output panel then shows both the error message and the buffer.
C10_PartialOutputVisible ==
    [][\A r \in Runs :
          (/\ runs[r].pc = "run_pattern"
           /\ runs'[r].settled = "run_pattern:rejected"
           /\ Truthy(aiStore'.error)
           /\ relayed # << >>)
          => /\ ~aiStore'.isStreaming
             /\ aiStore'.output = aiStore.output
             /\ OutputPanel(aiStore').errorBox # << >>
             /\ OutputPanel(aiStore').article = aiStore.output]_vars

\* the chunks a run_pattern command has emitted after its n-th ai-chunk event
RECURSIVE Streamed(_)
Streamed(n) == IF n = 0 THEN << >> ELSE Streamed(n - 1) \o Chunk(n)

\* C11: when the run_pattern command of a text-mode run resolves, with all
\* the events it emitted delivered, the run has issued that one command
\* only, with the vendor, the pattern name and the text of the call in its
\* request, and the buffer is the concatenation of the chunks the command
\* streamed.
C11_TextRunRequestAndBuffer ==
    [][\A r \in Runs :
          (/\ runs[r].pc = "run_pattern"
           /\ runs[r].inputMode = "text"
           /\ runs'[r].settled = "run_pattern:resolved"
           /\ events = << >>)
          => /\ runs'[r].calls = {"run_pattern"}
             /\ runs[r].request.vendor = runs[r].vendor
             /\ runs[r].request.system_prompt = runs[r].selectedPattern
             /\ runs[r].request.user_input = runs[r].inputText
             /\ aiStore'.output = Streamed(runs[r].emitted)]_vars

\* C12: the listener is never handed an event that was emitted before the
\* latest run started, so no chunk of an earlier run is appended to the
\* buffer once a later run has reset it.
C12_OneRunOneEpoch == [][DeliverChunk => staleEvents = 0]_vars

\* C13: in the App as the user drives it, at most one execution of
\* runPattern is in flight, and isStreaming is true for as long as it is.
C13_AtMostOneRun ==
    /\ Cardinality({r \in Runs : InFlight(r)}) <= 1
    /\ (\E r \in Runs : InFlight(r)) => aiStore.isStreaming

\* a run is awaiting run_pattern while a pattern is selected and text is
\* entered: only isStreaming keeps the Run button disabled
C13_Witness ==
    /\ runs[1].pc = "run_pattern"
    /\ ~patternStore.selectedPattern.isNull
    /\ Trim(aiStore.inputText) # << >>
    /\ runButtonDisabled(patternStore.selectedPattern, aiStore.inputText,
                         aiStore.isStreaming)

\* C14: while a run is streaming, the button that reads Stop can be clicked.
C14_CanCancelWhileStreaming ==
    aiStore.isStreaming =>
        ~runButtonDisabled(patternStore.selectedPattern, aiStore.inputText,
                           aiStore.isStreaming)

\* C15: whenever isStreaming is true it is false again later, provided every
\* call runPattern awaits settles.
C15_StreamingEnds == aiStore.isStreaming ~> ~aiStore.isStreaming

\* a run that streamed chunks has ended with its command resolved
C15_Witness ==
    /\ runs[1].settled = "run_pattern:resolved"
    /\ relayed # << >>
    /\ ~aiStore.isStreaming

\* C16: the step that ends a run leaves isStreaming false, and the error
\* null exactly when the run ended by its run_pattern command resolving;
\* a call that ends at once for want of an API key leaves isStreaming false
\* and an error.
C16_TerminalStates ==
    [][/\ \A r \in Runs :
             (InFlight(r) /\ runs'[r].pc = "done")
             => /\ ~aiStore'.isStreaming
                /\ (runs'[r].settled = "run_pattern:resolved") <=> aiStore'.error.isNull
       /\ (/\ RunPattern
           /\ ~validationFails(patternStore.selectedPattern, aiStore.inputText,
                               aiStore.inputMode)
           /\ \A r \in Runs : ~InFlight(r)')
          => /\ ~aiStore'.isStreaming
             /\ ~aiStore'.error.isNull]_vars

\* a url run has ended in success with its header and a chunk in the buffer
C16_Witness ==
    /\ runs[1].settled = "run_pattern:resolved"
    /\ aiStore.inputMode = "url"
    /\ aiStore.output = MsgContent(<<"u">>) \o <<"a">>
    /\ aiStore.error.isNull
    /\ ~aiStore.isStreaming

\* the names that are favorites
FavoriteSet(s) == {n \in PatternNames : isFavorite(s, n)}

\* C17: from every state of the pattern store and for every pattern name,
\* two calls of toggleFavorite(name) leave the same names favorites as
\* before, and leave everything else in the store as it was.
C17_ToggleTwice ==
    \A n \in PatternNames :
        LET twice == toggleFavorite(toggleFavorite(patternStore, n), n)
        IN  /\ FavoriteSet(twice) = FavoriteSet(patternStore)
            /\ Len(twice.favorites) = Len(patternStore.favorites)
            /\ twice.patterns = patternStore.patterns
            /\ twice.selectedPattern = patternStore.selectedPattern

\* the user has starred a third pattern; toggling the first favorite twice
\* moves it to the end of the stored list
C17_Witness ==
    /\ patternStore.favorites = <<"extract_wisdom", "summarize", "analyze_paper">>
    /\ toggleFavorite(toggleFavorite(patternStore, "extract_wisdom"),
                      "extract_wisdom").favorites
           = <<"summarize", "analyze_paper", "extract_wisdom">>

\* C18: the step in which list_patterns fails sets the pattern list to the
\* five demo patterns and the error to the load-failure message, which the
\* output panel then shows.
C18_LoadFailureFallback ==
    [][(loadPatternsPc = "pending" /\ loadPatternsPc' = "failed")
       => /\ patternStore'.patterns = DemoPatterns
          /\ Len(patternStore'.patterns) = 5
          /\ aiStore'.error = Str(MsgLoadFailed)
          /\ OutputPanel(aiStore').errorBox = MsgLoadFailed]_vars

\* list_patterns has failed: the demo list is in place, the message is up
\* and the user has selected a demo pattern
C18_Witness ==
    /\ loadPatternsPc = "failed"
    /\ patternStore.patterns = DemoPatterns
    /\ patternStore.selectedPattern = Pattern("summarize")
    /\ aiStore.error = Str(MsgLoadFailed)

\* a step of a run: a call of runPattern, the settling of a call it awaits,
\* the emission of an ai-chunk event or its delivery to the listener
RunStep ==
    \/ RunPattern
    \/ Settle
    \/ \E r \in Runs : EmitChunk(r)
    \/ DeliverChunk

\* C19: a step of a run leaves the settings store, the pattern store and the
\* input fields of the ai store as they were.
C19_RunFrame ==
    [][RunStep
       => /\ settingsStore' = settingsStore
          /\ patternStore' = patternStore
          /\ aiStore'.inputMode = aiStore.inputMode
          /\ aiStore'.inputText = aiStore.inputText
          /\ aiStore'.includeTimestamps = aiStore.includeTimestamps]_vars

\* a youtube run with timestamps has ended on an envelope error and the
\* input fields and the settings are those it was started with
C19_Witness ==
    /\ runs[1].settled = "transcript:error"
    /\ aiStore.inputMode = "youtube"
    /\ aiStore.inputText = <<"u">>
    /\ aiStore.includeTimestamps
    /\ settingsStore.googleApiKey = <<"k">>
    /\ patternStore.selectedPattern = Pattern("summarize")
    /\ ~aiStore.error.isNull

\* C20: once a run has ended and none is in flight, the buffer changes only
\* by a new call of runPattern or by the Clear button.
C20_BufferIntactAfterRun ==
    [][(/\ \E r \in Runs : runs[r].pc = "done"
        /\ \A r \in Runs : ~InFlight(r)
        /\ ~aiStore.isStreaming
        /\ ~RunPattern
        /\ ~ClickClear)
       => aiStore'.output = aiStore.output]_vars

\* C21: what run_pattern is sent as user_input is, in youtube mode, the
\* transcript get_youtube_transcript returned when called with the entered URL
\* and the includeTimestamps flag; in url mode the body of the page fetched
\* from the proxy URL built from the entered URL; in both never the entered
\* URL; in text mode the entered text.
C21_UserInputIsResolvedPayload ==
    \A r \in Runs :
        /\ runs[r].pc = "get_youtube_transcript"
           => runs[r].args = [url |-> runs[r].inputText,
                              includeTimestamps |-> runs[r].includeTimestamps]
        /\ runs[r].pc \in {"fetch", "response.text"}
           => runs[r].args.url = JinaUrl(runs[r].inputText)
        /\ runs[r].pc = "run_pattern"
           => /\ runs[r].request.user_input =
                     IF runs[r].inputMode = "text" THEN runs[r].inputText
                     ELSE runs[r].payload
              /\ runs[r].inputMode # "text"
                 => runs[r].request.user_input # runs[r].inputText

\* a url run has fetched the page and is awaiting run_pattern
C21_Witness ==
    \E r \in Runs :
        /\ runs[r].pc = "run_pattern"
        /\ runs[r].inputMode = "url"
        /\ runs[r].inputText = <<"u">>
        /\ runs[r].args.url = <<"https://r.jina.ai/", "u">>
        /\ runs[r].request.user_input = <<"p">>

\* C22: for every vendor v and every string k, getApiKey(v) after
\* setApiKey(v, k) returns k.
C22_SetThenGet ==
    \A v \in Vendors, k \in Keys :
        getApiKey(setApiKey(settingsStore, v, k), v) = k

\* C27: the stored model is one of the models ModelSelector lists for the
\* stored vendor.
C27_ModelOfVendor ==
    Includes(MODELS[settingsStore.vendor], settingsStore.model)

\* the user has selected Anthropic and then its second model
C27_Witness ==
    /\ settingsStore.vendor = "anthropic"
    /\ settingsStore.model = "claude-3-5-haiku-latest"

\* C23: loading the catalog, or falling back to the demo patterns, leaves
\* the favorites as they were, and a click on a star leaves the pattern list
\* and the selected pattern as they were.
C23_FavoritesApartFromCatalog ==
    [][/\ (LoadPatternsResolves \/ LoadPatternsRejects)
          => patternStore'.favorites = patternStore.favorites
       /\ ClickFavorite
          => /\ patternStore'.patterns = patternStore.patterns
             /\ patternStore'.selectedPattern = patternStore.selectedPattern]_vars

\* the catalog is loaded and a pattern selected; the favorites, one starred
\* in this session, include patterns the catalog does not have
C23_Witness ==
    /\ loadPatternsPc = "done"
    /\ patternStore.patterns = <<"summarize", "extract_wisdom">>
    /\ patternStore.selectedPattern = Pattern("summarize")
    /\ patternStore.favorites = <<"analyze_paper", "create_summary", "summarize">>

NoDuplicates(seq) == \A i, j \in 1..Len(seq) : i # j => seq[i] # seq[j]

\* the names whose favorite membership a step changes
Flipped == {n \in PatternNames : isFavorite(patternStore', n) # isFavorite(patternStore, n)}

\* C28: the favorites list never holds a name twice, and a click on the star
\* of a pattern changes the membership of that pattern and of no other, so a
\* name is a favorite exactly when it was toggled an odd number of times
\* since it was last absent.
C28_NoDuplicatesAndParity ==
    [][/\ NoDuplicates(patternStore'.favorites)
       /\ ClickFavorite
          => \E i \in 1..Len(patternStore.patterns) :
                 Flipped = {patternStore.patterns[i]}]_vars

\* after the demo fallback the user has starred three patterns and taken
\* the star off the first again
C28_Witness ==
    /\ loadPatternsPc = "failed"
    /\ patternStore.favorites = <<"improve_writing", "create_summary", "analyze_paper">>
    /\ ~isFavorite(patternStore, "summarize")

\* C24: with Ollama as the vendor, a call of runPattern that passes the
\* validation ends at once with the missing-key error and the streaming flag
\* off; no execution ever awaits the transcript command, the fetch or
\* run_pattern, whatever keys and Ollama URL are stored.
C24_OllamaNeverRuns ==
    [][(/\ settingsStore.vendor = "ollama"
        /\ RunPattern
        /\ ~validationFails(patternStore.selectedPattern, aiStore.inputText,
                            aiStore.inputMode))
       => /\ aiStore'.error = Str(MsgNoKey("ollama"))
          /\ ~aiStore'.isStreaming
          /\ events' = << >>
          /\ \A r \in Runs : /\ runs'[r].pc \in {"idle", "done"}
                             /\ runs'[r].calls = {}
                             /\ runs'[r].request = NoRequest]_vars

\* every key and another Ollama URL are stored, and a youtube run has ended
\* on the missing-key error
C24_Witness ==
    /\ settingsStore.vendor = "ollama"
    /\ settingsStore.googleApiKey = <<"k">>
    /\ settingsStore.openaiApiKey = <<"k">>
    /\ settingsStore.anthropicApiKey = <<"k">>
    /\ settingsStore.ollamaUrl = <<"http://gpu:11434">>
    /\ aiStore.inputMode = "youtube"
    /\ runs[1].pc = "done"
    /\ aiStore.error = Str(MsgNoKey("ollama"))

\* C25: every ai-chunk event delivered to the listener is appended to the
\* buffer, whether or not the streaming flag is on, and changes nothing else
\* of the ai store.
C25_ListenerUnconditional ==
    [][DeliverChunk
       => aiStore' = [aiStore EXCEPT
                         !.output = aiStore.output \o Head(events).payload.chunk]]_vars

\* a run has ended on the missing-key error, which emptied the buffer in
\* the same step, and a chunk of the run before it was appended afterwards
C25_Witness ==
    /\ ~aiStore.isStreaming
    /\ aiStore.error = Str(MsgNoKey("google"))
    /\ aiStore.output = <<"a">>
    /\ \A r \in Runs : ~InFlight(r)

\* a call of runPattern that the pattern/input validation turns away
RejectedRun ==
    /\ validationFails(patternStore.selectedPattern, aiStore.inputText,
                       aiStore.inputMode)
    /\ RunPattern

C29_ClearOnlyClears ==
    [][ClickClear
       => /\ aiStore' = [aiStore EXCEPT !.output = << >>, !.error = Null]
          /\ runs' = runs
          /\ events' = events]_vars

\* Clear was clicked after the first chunk of a streaming run: the run is
\* still awaiting run_pattern and the buffer holds its second chunk only
C29_Witness ==
    /\ aiStore.isStreaming
    /\ runs[1].pc = "run_pattern"
    /\ runs[1].emitted = 2
    /\ events = << >>
    /\ aiStore.output = <<"b">>

====
